---- MODULE Spec2Model ----
(***************************************************************************)
(* Inventory Management System: the Product hierarchy (models/product.py)  *)
(* and the Inventory store with its JSON persistence (models/inventory.py).*)
(*                                                                         *)
(* The store is Python's insertion-ordered dict, modelled as a sequence of *)
(* [key, value] items.  A product is a record whose field cls is its class *)
(* and whose other fields are the attributes its constructor sets.         *)
(* A datetime is [sec, us]: whole seconds and the microsecond part; the    *)
(* ISO-8601 text of a datetime is the sequence <<sec>> when us = 0 and     *)
(* <<sec, us>> otherwise, as datetime.isoformat omits a zero fraction.     *)
(* Exceptions are named by their Python class; ValueError is the spec's    *)
(* InvalidArgument.                                                        *)
(***************************************************************************)
EXTENDS Integers, Sequences, FiniteSets, TLC

VARIABLES products, file, result

vars == <<products, file, result>>

---------------------------------------------------------------------------
(* Bounds of the model *)

\* largest second of a modelled datetime
MaxSec == 1
\* largest microsecond part of a modelled datetime
MaxMicro == 1
\* restock is explored while the stock stays at or below this
MaxStock == 2
\* the same, where the file is part of the state
MaxSavedStock == 1
\* largest quantity / amount passed to sell and restock
MaxAmount == 2

None == "None"
NoError == "ok"

---------------------------------------------------------------------------
(* datetime *)

Times == [sec : 0..MaxSec, us : 0..MaxMicro]

\* datetime.__gt__
Later(a, b) == a.sec > b.sec \/ (a.sec = b.sec /\ a.us > b.us)

LaterEq(a, b) == a = b \/ Later(a, b)

\* datetime.isoformat: the fraction is written only when it is not zero
isoformat(d) == IF d.us = 0 THEN <<d.sec>> ELSE <<d.sec, d.us>>

\* datetime.fromisoformat accepts the text with or without a fraction
IsIsoText(s) == Len(s) \in {1, 2}

fromisoformat(s) == IF Len(s) = 1 THEN [sec |-> s[1], us |-> 0]
                                  ELSE [sec |-> s[1], us |-> s[2]]

---------------------------------------------------------------------------
(* float: a price is a Python float, and so are a sale total and a value.   *)
(* json writes a float as the shortest text that float() reads back as the  *)
(* same float, so a price crosses the file unchanged.                       *)

\* the bits a float keeps: IEEE 754 binary64, CPython's float
Precision == 53

\* A natural number as its digits to the base Base, lowest first, the
\* highest not 0
DigitBits == 13

Base == 2 ^ DigitBits

Trim(a) ==
    LET used == {i \in DOMAIN a : a[i] # 0} IN
    IF used = {} THEN <<>>
    ELSE SubSeq(a, 1, CHOOSE i \in used : \A j \in used : j <= i)

RECURSIVE Digits(_)
Digits(n) == IF n = 0 THEN <<>> ELSE <<n % Base>> \o Digits(n \div Base)

Digit(a, i) == IF i \in DOMAIN a THEN a[i] ELSE 0

RECURSIVE AddFrom(_, _, _, _)
AddFrom(a, b, i, carry) ==
    IF i > Len(a) /\ i > Len(b)
    THEN IF carry = 0 THEN <<>> ELSE <<carry>>
    ELSE LET t == Digit(a, i) + Digit(b, i) + carry IN
         <<t % Base>> \o AddFrom(a, b, i + 1, t \div Base)

Plus(a, b) == AddFrom(a, b, 1, 0)

\* a - b for a >= b
RECURSIVE SubFrom(_, _, _, _)
SubFrom(a, b, i, borrow) ==
    IF i > Len(a) THEN <<>>
    ELSE LET t == a[i] - Digit(b, i) - borrow IN
         <<(t + Base) % Base>> \o SubFrom(a, b, i + 1, IF t < 0 THEN 1 ELSE 0)

Minus(a, b) == Trim(SubFrom(a, b, 1, 0))

\* a times the digit d
RECURSIVE ScaleFrom(_, _, _, _)
ScaleFrom(a, d, i, carry) ==
    IF i > Len(a)
    THEN IF carry = 0 THEN <<>> ELSE <<carry>>
    ELSE LET t == a[i] * d + carry IN
         <<t % Base>> \o ScaleFrom(a, d, i + 1, t \div Base)

RECURSIVE Multiply(_, _)
Multiply(a, b) ==
    IF b = <<>> THEN <<>>
    ELSE Trim(Plus(ScaleFrom(a, Head(b), 1, 0), <<0>> \o Multiply(a, Tail(b))))

Less(a, b) ==
    \/ Len(a) < Len(b)
    \/ /\ Len(a) = Len(b)
       /\ \E i \in DOMAIN a : /\ a[i] < b[i]
                              /\ \A j \in (i + 1)..Len(a) : a[j] = b[j]

\* bit k of a, bit 0 the lowest
Bit(a, k) == (Digit(a, (k \div DigitBits) + 1) \div (2 ^ (k % DigitBits))) % 2

\* the number of bits of a
BitLength(a) ==
    IF a = <<>> THEN 0
    ELSE DigitBits * (Len(a) - 1)
         + (CHOOSE k \in 1..DigitBits :
              2 ^ (k - 1) <= a[Len(a)] /\ a[Len(a)] < 2 ^ k)

\* a * 2^k
ShiftLeft(a, k) ==
    LET bits == k % DigitBits
        high == 2 ^ (DigitBits - bits)
        moved == [i \in 1..(Len(a) + 1) |->
                     (Digit(a, i) % high) * (2 ^ bits)
                     + (Digit(a, i - 1) \div high)]
    IN Trim([i \in 1..(k \div DigitBits) |-> 0] \o moved)

\* a \div 2^k
ShiftRight(a, k) ==
    LET bits == k % DigitBits
        low == 2 ^ bits
        rest == SubSeq(a, (k \div DigitBits) + 1, Len(a))
    IN Trim([i \in DOMAIN rest |->
                (rest[i] \div low)
                + (Digit(rest, i + 1) % low) * (2 ^ (DigitBits - bits))])

\* A float is (-1)^neg * m * 2^e with m odd and of at most Precision bits;
\* zero has no digits (its sign is not kept: 0.0 == -0.0), and the
\* exponents stay far from the ends of the range.
Zero == [neg |-> FALSE, m |-> <<>>, e |-> 0]

Canonical(neg, a, e) ==
    IF a = <<>> THEN Zero
    ELSE LET zeros == CHOOSE k \in 0..BitLength(a) :
                         Bit(a, k) = 1 /\ \A j \in 0..(k - 1) : Bit(a, j) = 0
         IN [neg |-> neg, m |-> ShiftRight(a, zeros), e |-> e + zeros]

\* a * 2^e (and a little more when inexact) rounded to Precision bits, a
\* tie to the even neighbour
RoundToFloat(neg, a, e, inexact) ==
    LET cut == BitLength(a) - Precision IN
    IF cut <= 0 THEN Canonical(neg, a, e)
    ELSE LET kept == ShiftRight(a, cut)
             half == Bit(a, cut - 1) = 1
             more == inexact \/ \E k \in 0..(cut - 2) : Bit(a, k) = 1
             up == half /\ (more \/ Bit(a, cut) = 1)
         IN Canonical(neg, IF up THEN Plus(kept, <<1>>) ELSE kept, e + cut)

\* float(n) for an int n
FloatOfInt(n) ==
    RoundToFloat(n < 0, Digits(IF n < 0 THEN 0 - n ELSE n), 0, FALSE)

\* long division of a by the int den, from digit i down: [quotient, rem]
RECURSIVE DivideFrom(_, _, _, _)
DivideFrom(a, den, i, rem) ==
    IF i = 0 THEN [quotient |-> <<>>, rem |-> rem]
    ELSE LET t == rem * Base + a[i]
             d == DivideFrom(a, den, i - 1, t % den)
         IN [quotient |-> Append(d.quotient, t \div den), rem |-> d.rem]

\* float(text) for a decimal text worth num / den: the float nearest to
\* the quotient, which is taken to more bits than a float keeps
FloatOfDecimal(num, den) ==
    LET bits == Precision + 3 + BitLength(Digits(den))
        a == ShiftLeft(Digits(num), bits)
        d == DivideFrom(a, den, Len(a), 0)
    IN RoundToFloat(FALSE, Trim(d.quotient), 0 - bits, d.rem # 0)

\* float.__add__
FloatAdd(x, y) ==
    LET e == IF x.e < y.e THEN x.e ELSE y.e
        a == ShiftLeft(x.m, x.e - e)
        b == ShiftLeft(y.m, y.e - e)
    IN IF x.m = <<>> THEN y
       ELSE IF y.m = <<>> THEN x
       ELSE IF x.neg = y.neg THEN RoundToFloat(x.neg, Plus(a, b), e, FALSE)
       ELSE IF Less(a, b) THEN RoundToFloat(y.neg, Minus(b, a), e, FALSE)
       ELSE RoundToFloat(x.neg, Minus(a, b), e, FALSE)

\* float.__mul__
FloatMul(x, y) ==
    RoundToFloat(x.neg # y.neg, Multiply(x.m, y.m), x.e + y.e, FALSE)

---------------------------------------------------------------------------
(* models/product.py *)

ProductClasses == {"Electronics", "Grocery", "Clothing"}

BaseArgs == {"product_id", "name", "price", "quantity_in_stock"}

\* the keyword parameters of each class's __init__
InitArgs(cls) ==
    CASE cls = "Electronics" -> BaseArgs \cup {"warranty_years", "brand"}
      [] cls = "Grocery"     -> BaseArgs \cup {"expiry_date"}
      [] cls = "Clothing"    -> BaseArgs \cup {"size", "material"}

\* Product.__init__ and the subclasses' __init__: the arguments are stored as
\* given, none is validated
NewProduct(cls, kwargs) ==
    [k \in DOMAIN kwargs \cup {"cls"} |-> IF k = "cls" THEN cls ELSE kwargs[k]]

\* a call cls(**kwargs): Python raises TypeError unless the keywords are the
\* parameters of __init__; nothing else makes a constructor fail
Construct(cls, kwargs) ==
    IF DOMAIN kwargs # InitArgs(cls)
    THEN [err |-> "TypeError", product |-> None]
    ELSE [err |-> NoError, product |-> NewProduct(cls, kwargs)]

Electronics(product_id, name, price, quantity_in_stock, warranty_years, brand) ==
    NewProduct("Electronics",
               [product_id |-> product_id, name |-> name, price |-> price,
                quantity_in_stock |-> quantity_in_stock,
                warranty_years |-> warranty_years, brand |-> brand])

Grocery(product_id, name, price, quantity_in_stock, expiry_date) ==
    NewProduct("Grocery",
               [product_id |-> product_id, name |-> name, price |-> price,
                quantity_in_stock |-> quantity_in_stock,
                expiry_date |-> expiry_date])

Clothing(product_id, name, price, quantity_in_stock, size, material) ==
    NewProduct("Clothing",
               [product_id |-> product_id, name |-> name, price |-> price,
                quantity_in_stock |-> quantity_in_stock,
                size |-> size, material |-> material])

\* restock with the amount assigned to the stock (= for +=)
restock_assigning(p, amount) ==
    IF amount <= 0
    THEN [err |-> "ValueError", product |-> p]
    ELSE [err |-> NoError,
          product |-> [p EXCEPT !.quantity_in_stock = amount]]

\* Product.restock: [err, product]
restock(p, amount) ==
    IF amount <= 0
    THEN [err |-> "ValueError", product |-> p]
    ELSE [err |-> NoError,
          product |-> [p EXCEPT !.quantity_in_stock = @ + amount]]

\* sell with the whole stock refused (>= for >)
sell_refusing_whole_stock(p, quantity) ==
    IF quantity <= 0
    THEN [err |-> "ValueError", args |-> <<>>, product |-> p, ret |-> None]
    ELSE IF quantity >= p.quantity_in_stock
    THEN [err |-> "InsufficientStockError",
          args |-> <<p.product_id, quantity, p.quantity_in_stock>>,
          product |-> p, ret |-> None]
    ELSE [err |-> NoError, args |-> <<>>,
          product |-> [p EXCEPT !.quantity_in_stock = @ - quantity],
          ret |-> FloatMul(p.price, FloatOfInt(quantity))]

\* sell with its two checks in the other order
sell_checking_stock_first(p, quantity) ==
    IF quantity > p.quantity_in_stock
    THEN [err |-> "InsufficientStockError",
          args |-> <<p.product_id, quantity, p.quantity_in_stock>>,
          product |-> p, ret |-> None]
    ELSE IF quantity <= 0
    THEN [err |-> "ValueError", args |-> <<>>, product |-> p, ret |-> None]
    ELSE [err |-> NoError, args |-> <<>>,
          product |-> [p EXCEPT !.quantity_in_stock = @ - quantity],
          ret |-> FloatMul(p.price, FloatOfInt(quantity))]

\* Product.sell: [err, args, product, ret]
sell(p, quantity) ==
    IF quantity <= 0
    THEN [err |-> "ValueError", args |-> <<>>, product |-> p, ret |-> None]
    ELSE IF quantity > p.quantity_in_stock
    THEN [err |-> "InsufficientStockError",
          args |-> <<p.product_id, quantity, p.quantity_in_stock>>,
          product |-> p, ret |-> None]
    ELSE [err |-> NoError, args |-> <<>>,
          product |-> [p EXCEPT !.quantity_in_stock = @ - quantity],
          ret |-> FloatMul(p.price, FloatOfInt(quantity))]

\* Product.get_total_value
get_total_value(p) == FloatMul(p.price, FloatOfInt(p.quantity_in_stock))

\* is_expired with >= for >
is_expired_on_the_date(p, clock) == LaterEq(clock, p.expiry_date)

\* Grocery.is_expired, with the value datetime.now() returns
is_expired(p, clock) == Later(clock, p.expiry_date)

\* to_dict without the subclasses' data.update
to_dict_of_base(p) ==
    [k \in BaseArgs \cup {"type"} |-> IF k = "type" THEN p.cls ELSE p[k]]

\* Product.to_dict and the subclasses' to_dict
to_dict(p) ==
    [k \in (DOMAIN p \ {"cls"}) \cup {"type"} |->
        IF k = "type" THEN p.cls
        ELSE IF k = "expiry_date" THEN isoformat(p.expiry_date)
        ELSE p[k]]

---------------------------------------------------------------------------
(* models/inventory.py: the dict self._products as a sequence of items *)

Keys(s) == {s[i].key : i \in DOMAIN s}

\* self._products[key]
Lookup(s, key) == s[CHOOSE i \in DOMAIN s : s[i].key = key].value

\* del self._products[key]: the other items keep their order
DictDel(s, key) == SelectSeq(s, LAMBDA it : it.key # key)

\* self._products[key] = value: a new key goes last, a held key keeps its place
DictSet(s, key, value) ==
    IF key \in Keys(s)
    THEN [i \in DOMAIN s |-> IF s[i].key = key
                             THEN [key |-> key, value |-> value] ELSE s[i]]
    ELSE Append(s, [key |-> key, value |-> value])

\* list(self._products.values())
Values(s) == [i \in DOMAIN s |-> s[i].value]

\* add_product without its membership test: the assignment replaces
add_product_replacing(s, p) ==
    [err |-> NoError, args |-> <<>>, products |-> DictSet(s, p.product_id, p)]

\* Inventory.add_product: [err, args, products]
add_product(s, p) ==
    IF p.product_id \in Keys(s)
    THEN [err |-> "DuplicateProductError", args |-> <<p.product_id>>,
          products |-> s]
    ELSE [err |-> NoError, args |-> <<>>,
          products |-> DictSet(s, p.product_id, p)]

\* Inventory.remove_product: [err, args, products]
remove_product(s, product_id) ==
    IF product_id \notin Keys(s)
    THEN [err |-> "ProductNotFoundError", args |-> <<product_id>>,
          products |-> s]
    ELSE [err |-> NoError, args |-> <<>>, products |-> DictDel(s, product_id)]

\* Inventory.get_product: [err, args, ret]
get_product(s, product_id) ==
    IF product_id \notin Keys(s)
    THEN [err |-> "ProductNotFoundError", args |-> <<product_id>>,
          ret |-> None]
    ELSE [err |-> NoError, args |-> <<>>, ret |-> Lookup(s, product_id)]

\* the text of a str, character by character, for the names the callers
\* use
Chars(str) ==
    CASE str = "Laptop" -> <<"L", "a", "p", "t", "o", "p">>
      [] str = "Milk"   -> <<"M", "i", "l", "k">>
      [] str = "Shirt"  -> <<"S", "h", "i", "r", "t">>
      [] str = "MILK"   -> <<"M", "I", "L", "K">>
      [] str = "i"      -> <<"i">>
      [] str = ""       -> <<>>

\* str.lower(), on these characters
lower(text) ==
    [i \in DOMAIN text |->
        CASE text[i] = "I" -> "i"
          [] text[i] = "K" -> "k"
          [] text[i] = "L" -> "l"
          [] text[i] = "M" -> "m"
          [] text[i] = "S" -> "s"
          [] OTHER -> text[i]]

\* Python's "needle in text" for two str
Contains(needle, text) ==
    \E k \in 0..(Len(text) - Len(needle)) :
        \A j \in 1..Len(needle) : text[k + j] = needle[j]

\* Inventory.search_by_name
search_by_name(s, name) ==
    LET needle == lower(Chars(name))
        Match(p) == Contains(needle, lower(Chars(p.name)))
    IN SelectSeq(Values(s), Match)

\* isinstance(p, product_type): the three classes derive from Product
isinstance(p, product_type) == product_type = "Product" \/ p.cls = product_type

\* Inventory.search_by_type
search_by_type(s, product_type) ==
    LET Match(p) == isinstance(p, product_type)
    IN SelectSeq(Values(s), Match)

\* Inventory.list_all_products
list_all_products(s) == Values(s)

\* sell_product with a product that sold out taken off the shelf
sell_product_removing_sold_out(s, product_id, quantity) ==
    LET got == get_product(s, product_id) IN
    IF got.err # NoError
    THEN [err |-> got.err, args |-> got.args, products |-> s, ret |-> None]
    ELSE LET r == sell(got.ret, quantity) IN
         [err |-> r.err, args |-> r.args,
          products |-> IF r.err = NoError /\ r.product.quantity_in_stock = 0
                       THEN DictDel(s, product_id)
                       ELSE DictSet(s, product_id, r.product),
          ret |-> r.ret]

\* sell_product with the quantity checked before the lookup
sell_product_checking_quantity_first(s, product_id, quantity) ==
    IF quantity <= 0
    THEN [err |-> "ValueError", args |-> <<>>, products |-> s, ret |-> None]
    ELSE LET got == get_product(s, product_id) IN
         IF got.err # NoError
         THEN [err |-> got.err, args |-> got.args, products |-> s,
               ret |-> None]
         ELSE LET r == sell(got.ret, quantity) IN
              [err |-> r.err, args |-> r.args,
               products |-> DictSet(s, product_id, r.product), ret |-> r.ret]

\* Inventory.sell_product: the product is mutated in place, so the dict keeps
\* its order: [err, args, products, ret]
sell_product(s, product_id, quantity) ==
    LET got == get_product(s, product_id) IN
    IF got.err # NoError
    THEN [err |-> got.err, args |-> got.args, products |-> s, ret |-> None]
    ELSE LET r == sell(got.ret, quantity) IN
         [err |-> r.err, args |-> r.args,
          products |-> DictSet(s, product_id, r.product), ret |-> r.ret]

\* Inventory.restock_product: [err, args, products]
restock_product(s, product_id, quantity) ==
    LET got == get_product(s, product_id) IN
    IF got.err # NoError
    THEN [err |-> got.err, args |-> got.args, products |-> s]
    ELSE LET r == restock(got.ret, quantity) IN
         [err |-> r.err, args |-> <<>>,
          products |-> DictSet(s, product_id, r.product)]

\* sum(...): the values added one by one, in the dict's order, to what was
\* summed before
RECURSIVE SumValues(_, _, _)
SumValues(s, i, total) ==
    IF i > Len(s) THEN total
    ELSE SumValues(s, i + 1, FloatAdd(total, get_total_value(s[i].value)))

\* Inventory.total_inventory_value; sum starts from the int 0, here 0.0
total_inventory_value(s) == SumValues(s, 1, Zero)

\* Inventory.remove_expired_products, over the snapshot list(items()):
\* reads[i] is what datetime.now() returns when item i's is_expired runs.
\* [products, expired_ids]
RECURSIVE SweepFrom(_, _, _, _, _)
SweepFrom(snapshot, reads, i, s, expired_ids) ==
    IF i > Len(snapshot)
    THEN [products |-> s, expired_ids |-> expired_ids]
    ELSE LET product_id == snapshot[i].key
             product    == snapshot[i].value
         IN IF product.cls = "Grocery" /\ is_expired(product, reads[i])
            THEN SweepFrom(snapshot, reads, i + 1, DictDel(s, product_id),
                           Append(expired_ids, product_id))
            ELSE SweepFrom(snapshot, reads, i + 1, s, expired_ids)

remove_expired_products(s, reads) == SweepFrom(s, reads, 1, s, <<>>)

\* Inventory.save_to_file: the document json.dump writes
save_to_file(s) == [products |-> [i \in DOMAIN s |-> to_dict(s[i].value)]]

\* One record of load_from_file's loop, for the store s built so far:
\* [err, cause, products].  cause is the exception first raised; err is the
\* one that leaves load_from_file (the except clause turns KeyError and
\* ValueError into InvalidProductDataError and lets every other class pass).
LoadRecord(s, rec) ==
    LET product_type == IF "type" \in DOMAIN rec THEN rec.type ELSE None
        product_data == [k \in DOMAIN rec \ {"type"} |-> rec[k]]
    IN
    IF product_type \notin ProductClasses
    THEN [err |-> "InvalidProductDataError",
          cause |-> "InvalidProductDataError", products |-> s]
    ELSE IF product_type = "Grocery" /\ "expiry_date" \notin DOMAIN product_data
    THEN [err |-> "InvalidProductDataError", cause |-> "KeyError",
          products |-> s]
    ELSE IF product_type = "Grocery" /\ ~IsIsoText(product_data.expiry_date)
    THEN [err |-> "InvalidProductDataError", cause |-> "ValueError",
          products |-> s]
    ELSE LET kwargs == [k \in DOMAIN product_data |->
                          IF product_type = "Grocery" /\ k = "expiry_date"
                          THEN fromisoformat(product_data[k])
                          ELSE product_data[k]]
             made == Construct(product_type, kwargs)
         IN IF made.err # NoError
            THEN [err |-> made.err, cause |-> made.err, products |-> s]
            ELSE LET added == add_product(s, made.product)
                 IN [err |-> added.err, cause |-> added.err,
                     products |-> added.products]

RECURSIVE LoadFrom(_, _, _)
LoadFrom(recs, i, s) ==
    IF i > Len(recs)
    THEN [err |-> NoError, cause |-> NoError, products |-> s]
    ELSE LET r == LoadRecord(s, recs[i])
         IN IF r.err # NoError THEN r ELSE LoadFrom(recs, i + 1, r.products)

\* Inventory.load_from_file on the content f of the named file:
\* [err, cause, products]
load_from_file(s, f) ==
    IF f.kind = "missing"
    THEN [err |-> "FileNotFoundError", cause |-> "FileNotFoundError",
          products |-> s]
    ELSE IF f.kind = "garbage"
    THEN [err |-> "InvalidProductDataError", cause |-> "JSONDecodeError",
          products |-> s]
    ELSE LET data == f.data
             recs == IF "products" \in DOMAIN data THEN data.products ELSE <<>>
         IN LoadFrom(recs, 1, <<>>)

---------------------------------------------------------------------------
(* The callers' inputs *)

Amounts == (0 - 1)..MaxAmount

IdsOf(catalog) == {p.product_id : p \in catalog}

\* an id no product of the catalogs has
AbsentId == "X9"

ExpiryDates == {[sec |-> 0, us |-> 1], [sec |-> 1, us |-> 0]}

\* the products a caller constructs: one of each class, the Grocery with
\* either expiry date, the Clothing with a price and a stock that no
\* constructor refuses
Catalog ==
    {Electronics("E1", "Laptop", FloatOfInt(3), 1, 1, "Acme")}
    \cup {Grocery("G1", "Milk", FloatOfInt(2), 1, x) : x \in ExpiryDates}
    \cup {Clothing("C1", "Shirt", FloatOfInt(0), 0 - 1, "M", "Cotton")}

\* the ids whose stock the callers change where the file is part of the state
StockIds == {"C1"}

\* the classes again with two Groceries, for the operations that work in
\* memory
StoreCatalog ==
    {Electronics("E1", "Laptop", FloatOfInt(3), q, 1, "Acme") :
        q \in {0 - 1, 2}}
    \cup {Grocery(id, "Milk", FloatOfInt(2), 1, x) :
            id \in {"G1", "G2"}, x \in ExpiryDates}
    \cup {Clothing("C1", "Shirt", FloatOfInt(5), 1, "M", "Cotton")}

\* the ids whose stock the callers change there
StoreStockIds == {"E1", AbsentId}


\* products priced in cents, as the prices typed at the prompt are: 0.10 and
\* 19.99
ValueCatalog ==
    {Electronics("E1", "Laptop", FloatOfDecimal(10, 100), 2, 1, "Acme"),
     Clothing("C1", "Shirt", FloatOfDecimal(1999, 100), 1, "M", "Cotton")}

\* the names and the classes the callers search for
SearchNames == {"MILK", "i", ""}
SearchTypes == ProductClasses \cup {"Product"}

Drop(rec, key) == [k \in DOMAIN rec \ {key} |-> rec[k]]

GoodRecords == {to_dict(p) : p \in Catalog}

SampleElectronics ==
    to_dict(Electronics("E1", "Laptop", FloatOfInt(3), 1, 1, "Acme"))
SampleGrocery == to_dict(Grocery("G1", "Milk", FloatOfInt(2), 1,
                                [sec |-> 1, us |-> 0]))
SampleClothing ==
    to_dict(Clothing("C1", "Shirt", FloatOfInt(5), 2, "M", "Cotton"))

\* records no to_dict writes: a foreign or absent discriminator, a missing
\* field, an expiry text that is no ISO-8601 date
BadRecords ==
    {[SampleElectronics EXCEPT !.type = "Furniture"],
     Drop(SampleElectronics, "type"),
     Drop(SampleElectronics, "brand"),
     Drop(SampleGrocery, "product_id"),
     Drop(SampleClothing, "size"),
     Drop(SampleGrocery, "expiry_date"),
     [SampleGrocery EXCEPT !.expiry_date = <<>>]}

\* the documents found in files this program did not write: one record, or a
\* well-formed record followed by one more (the same id again, another
\* product, a record of BadRecords)
FixtureDocs ==
    {<<r>> : r \in GoodRecords \cup BadRecords}
    \cup {<<SampleElectronics, r>> :
            r \in {SampleElectronics, SampleGrocery,
                   [SampleClothing EXCEPT !.type = "Furniture"],
                   Drop(SampleClothing, "size"),
                   [SampleGrocery EXCEPT !.expiry_date = <<>>]}}

Fixtures ==
    {[kind |-> "garbage"], [kind |-> "json", data |-> <<>>]}
    \cup {[kind |-> "json", data |-> [products |-> d]] : d \in FixtureDocs}

\* the clock readings of one sweep: reads[i] is taken when item i is
\* examined, and only for a Grocery (is_expired is not called for the other
\* classes, whose entry repeats the first datetime).  datetime.now() is the
\* wall clock: nothing orders two readings.
SweepReads(s) ==
    LET groceries == {i \in DOMAIN s : s[i].value.cls = "Grocery"} IN
    {[i \in DOMAIN s |-> IF i \in groceries THEN rd[i]
                                            ELSE [sec |-> 0, us |-> 0]] :
        rd \in [groceries -> Times]}

---------------------------------------------------------------------------
(* The state machine.  products is Inventory._products, file the content of *)
(* the file save_to_file writes, result the last call: its arguments (args),*)
(* the exception that left it (err) with the exception's own arguments      *)
(* (exc), and the value it returned (ret).  A sweep's args are the clock    *)
(* readings it took, a load's the file it read.                             *)

Init ==
    /\ products = <<>>
    /\ file = [kind |-> "missing"]
    /\ result = [op |-> "init", args |-> <<>>, err |-> NoError, exc |-> <<>>,
                 ret |-> None]

AddProduct(catalog) ==
    \E p \in catalog :
        LET r == add_product(products, p) IN
        /\ products' = r.products
        /\ result' = [op |-> "add", args |-> <<p>>, err |-> r.err,
                      exc |-> r.args, ret |-> None]
        /\ UNCHANGED file

RemoveProduct(ids) ==
    \E id \in ids :
        LET r == remove_product(products, id) IN
        /\ products' = r.products
        /\ result' = [op |-> "remove", args |-> <<id>>, err |-> r.err,
                      exc |-> r.args, ret |-> None]
        /\ UNCHANGED file

SellProduct(ids) ==
    \E id \in ids, q \in Amounts :
        LET r == sell_product(products, id, q) IN
        /\ products' = r.products
        /\ result' = [op |-> "sell", args |-> <<id, q>>, err |-> r.err,
                      exc |-> r.args, ret |-> r.ret]
        /\ UNCHANGED file

RestockProduct(ids, cap) ==
    \E id \in ids, q \in Amounts :
        LET r == restock_product(products, id, q) IN
        /\ \A i \in DOMAIN r.products :
               r.products[i].value.quantity_in_stock <= cap
        /\ products' = r.products
        /\ result' = [op |-> "restock", args |-> <<id, q>>, err |-> r.err,
                      exc |-> r.args, ret |-> None]
        /\ UNCHANGED file

RemoveExpiredProducts ==
    \E reads \in SweepReads(products) :
        LET r == remove_expired_products(products, reads) IN
        /\ products' = r.products
        /\ result' = [op |-> "sweep", args |-> <<reads>>, err |-> NoError,
                      exc |-> <<>>, ret |-> r.expired_ids]
        /\ UNCHANGED file

SaveToFile ==
    /\ file' = [kind |-> "json", data |-> save_to_file(products)]
    /\ result' = [op |-> "save", args |-> <<>>, err |-> NoError, exc |-> <<>>,
                 ret |-> None]
    /\ UNCHANGED products

\* load_from_file of the file save_to_file wrote (saved) or of another one
LoadFromFile ==
    \E src \in {[saved |-> TRUE, content |-> file]}
               \cup {[saved |-> FALSE, content |-> f] : f \in Fixtures} :
        LET r == load_from_file(products, src.content) IN
        /\ products' = r.products
        /\ result' = [op |-> "load", args |-> <<src.saved, src.content>>,
                      err |-> r.err, exc |-> <<>>, ret |-> None,
                      cause |-> r.cause]
        /\ UNCHANGED file

GetProduct(ids) ==
    \E id \in ids :
        LET r == get_product(products, id) IN
        /\ result' = [op |-> "get", args |-> <<id>>, err |-> r.err,
                      exc |-> r.args, ret |-> r.ret]
        /\ UNCHANGED <<products, file>>

SearchByName ==
    \E name \in SearchNames :
        /\ result' = [op |-> "search_by_name", args |-> <<name>>,
                      err |-> NoError, exc |-> <<>>,
                      ret |-> search_by_name(products, name)]
        /\ UNCHANGED <<products, file>>

SearchByType ==
    \E product_type \in SearchTypes :
        /\ result' = [op |-> "search_by_type", args |-> <<product_type>>,
                      err |-> NoError, exc |-> <<>>,
                      ret |-> search_by_type(products, product_type)]
        /\ UNCHANGED <<products, file>>

ListAllProducts ==
    /\ result' = [op |-> "list", args |-> <<>>, err |-> NoError, exc |-> <<>>,
                  ret |-> list_all_products(products)]
    /\ UNCHANGED <<products, file>>

TotalInventoryValue ==
    /\ result' = [op |-> "total", args |-> <<>>, err |-> NoError,
                  exc |-> <<>>, ret |-> total_inventory_value(products)]
    /\ UNCHANGED <<products, file>>

\* every operation of the store, persistence included
Next ==
    \/ AddProduct(Catalog)
    \/ RemoveProduct(IdsOf(Catalog) \cup {AbsentId})
    \/ SellProduct(StockIds)
    \/ RestockProduct(StockIds, MaxSavedStock)
    \/ RemoveExpiredProducts
    \/ SaveToFile
    \/ LoadFromFile

Spec == Init /\ [][Next]_vars

\* the operations that work in memory, on the larger catalog
StoreNext ==
    \/ AddProduct(StoreCatalog)
    \/ RemoveProduct(IdsOf(StoreCatalog) \cup {AbsentId})
    \/ SellProduct(StoreStockIds)
    \/ RestockProduct(StoreStockIds, MaxStock)
    \/ RemoveExpiredProducts

StoreSpec == Init /\ [][StoreNext]_vars

\* the four calls that look a product up by its id, for every id of the
\* catalog and one it does not have, between adds, removes and sweeps
LookupIds == IdsOf(Catalog) \cup {AbsentId}

LookupNext ==
    \/ AddProduct(Catalog)
    \/ RemoveProduct(LookupIds)
    \/ GetProduct(LookupIds)
    \/ SellProduct(LookupIds)
    \/ RestockProduct(LookupIds, MaxStock)
    \/ RemoveExpiredProducts

LookupSpec == Init /\ [][LookupNext]_vars

\* the calls that change the inventory's value and the call that returns it,
\* for prices with cents
ValueNext ==
    \/ AddProduct(ValueCatalog)
    \/ RemoveProduct(IdsOf(ValueCatalog))
    \/ SellProduct(IdsOf(ValueCatalog))
    \/ RestockProduct(IdsOf(ValueCatalog), MaxStock)
    \/ TotalInventoryValue

ValueSpec == Init /\ [][ValueNext]_vars

\* the calls that change the stock, and the calls that only read the store,
\* between adds, removes and saves
QueryNext ==
    \/ AddProduct(Catalog)
    \/ RemoveProduct(IdsOf(Catalog) \cup {AbsentId})
    \/ SellProduct(StockIds \cup {AbsentId})
    \/ RestockProduct(StockIds \cup {AbsentId}, MaxSavedStock)
    \/ SaveToFile
    \/ GetProduct(IdsOf(Catalog) \cup {AbsentId})
    \/ SearchByName
    \/ SearchByType
    \/ ListAllProducts
    \/ TotalInventoryValue

QuerySpec == Init /\ [][QueryNext]_vars

---------------------------------------------------------------------------
(* The claims *)

Held == {products[i].value : i \in DOMAIN products}

Stock(s, key) == Lookup(s, key).quantity_in_stock

\* C1: in every reachable state every product the Inventory holds has
\* quantity_in_stock >= 0.
C1_StockNeverNegative == \A p \in Held : p.quantity_in_stock >= 0

\* C2: a load_from_file that fails leaves the store holding exactly the
\* products it held before the call.
C2_FailedLoadKeepsStore ==
    [][(result'.op = "load" /\ result'.err # NoError) => products' = products]_vars

\* the exceptions load_from_file meets on unparseable JSON (JSONDecodeError),
\* on a foreign or absent discriminator (its own InvalidProductDataError), on
\* a missing field (KeyError for a Grocery's expiry_date, TypeError from the
\* constructor for any other) and on a malformed one (ValueError)
DataFaults ==
    {"JSONDecodeError", "InvalidProductDataError", "KeyError", "TypeError",
     "ValueError"}

\* C3: a load_from_file failure caused by unparseable JSON, by an unknown or
\* absent type discriminator or by a missing or malformed field reaches the
\* caller as InvalidProductDataError and as no other exception.
C3_DataFaultsRaiseInvalidProductData ==
    (result.op = "load" /\ result.cause \in DataFaults)
        => result.err = "InvalidProductDataError"

LoadedClasses == {p.cls : p \in Held}

\* C4: load_from_file of the file save_to_file wrote, after any in-memory
\* changes in between, succeeds and leaves exactly the saved products: the
\* to_dict records of the store are those of the file, in the file's order.
C4_SaveLoadRoundTrip ==
    [][(result'.op = "load" /\ result'.args[1] /\ file.kind = "json")
          => /\ result'.err = NoError
             /\ save_to_file(products') = file.data]_vars

\* a load of the saved file that restored one product of each class, the
\* Grocery with a fractional expiry date
C4_Witness ==
    /\ result.op = "load" /\ result.args[1] /\ result.err = NoError
    /\ LoadedClasses = ProductClasses
    /\ \E p \in Held : p.cls = "Grocery" /\ p.expiry_date.us # 0

\* C5: sell through the Inventory with a quantity above the product's stock
\* fails with InsufficientStockError carrying the id, the requested quantity
\* and the stock, and changes nothing.
C5_OversellRaisesInsufficientStock ==
    [][(/\ result'.op = "sell"
        /\ result'.args[1] \in Keys(products)
        /\ result'.args[2] > Stock(products, result'.args[1]))
          => /\ result'.err = "InsufficientStockError"
             /\ result'.exc = <<result'.args[1], result'.args[2],
                                Stock(products, result'.args[1])>>
             /\ products' = products]_vars

\* C6: sell(X, q) with 0 < q <= stock of X succeeds, lowers X's stock by
\* exactly q and returns price * q.
C6_SellDecrementsAndReturnsTotal ==
    [][(/\ result'.op = "sell"
        /\ result'.args[1] \in Keys(products)
        /\ 0 < result'.args[2]
        /\ result'.args[2] <= Stock(products, result'.args[1]))
          => /\ result'.err = NoError
             /\ result'.ret
                  = FloatMul(Lookup(products, result'.args[1]).price,
                             FloatOfInt(result'.args[2]))
             /\ Stock(products', result'.args[1])
                  = Stock(products, result'.args[1]) - result'.args[2]]_vars

\* a sale of a product's whole stock, two items at once
C6_Witness ==
    /\ result.op = "sell" /\ result.err = NoError
    /\ result.args[2] = 2 /\ result.ret = FloatOfInt(6)
    /\ Stock(products, result.args[1]) = 0

\* C7: restock with an amount <= 0 and sell with a quantity <= 0 fail with
\* ValueError, whatever the stock, and change nothing.
C7_NonPositiveAmountRaisesValueError ==
    [][(/\ result'.op \in {"sell", "restock"}
        /\ result'.args[1] \in Keys(products)
        /\ result'.args[2] <= 0)
          => /\ result'.err = "ValueError"
             /\ products' = products]_vars

\* a sell of quantity 0 refused on a product whose stock is below 0, where
\* the quantity is above the stock as well
C7_Witness ==
    /\ result.op = "sell" /\ result.err = "ValueError"
    /\ result.args[2] = 0
    /\ result.args[1] \in Keys(products)
    /\ Stock(products, result.args[1]) < 0

\* x > 0 for a float x
Positive(x) == x.m # <<>> /\ ~x.neg

\* C8: the constructors refuse a price <= 0 and a negative stock with
\* ValueError, so the product a caller hands to add_product has neither, and
\* no product held, built by a caller or by load_from_file, has a price <= 0.
C8_NoNonPositivePrice ==
    /\ result.op = "add" => /\ Positive(result.args[1].price)
                            /\ result.args[1].quantity_in_stock >= 0
    /\ \A p \in Held : Positive(p.price)

\* C9: add_product with an id the store holds fails with
\* DuplicateProductError carrying the id and changes nothing: the product
\* held under the id stays.
C9_DuplicateAddRefused ==
    [][(/\ result'.op = "add"
        /\ result'.args[1].product_id \in Keys(products))
          => /\ result'.err = "DuplicateProductError"
             /\ result'.exc = <<result'.args[1].product_id>>
             /\ products' = products]_vars

\* a refused add of a product that differs from the one held under its id
C9_Witness ==
    /\ result.op = "add" /\ result.err = "DuplicateProductError"
    /\ Lookup(products, result.args[1].product_id) # result.args[1]

Before(a, b) == a.sec < b.sec \/ (a.sec = b.sec /\ a.us < b.us)

\* the items of s at the indices idx, in the order of s
Pick(s, idx) ==
    [j \in 1..Cardinality(idx) |->
        s[CHOOSE i \in idx : Cardinality({k \in idx : k < i}) = j - 1]]

\* C10: whatever the content and the order of the store, a sweep removes
\* exactly the Groceries whose expiry date is strictly before the clock
\* reading taken for them (one equal to it stays), keeps every other item
\* unchanged and in place, and returns the removed ids in the store's order.
C10_SweepRemovesExactlyExpired ==
    [][result'.op = "sweep"
          => LET reads == result'.args[1]
                 due == {i \in DOMAIN products :
                           /\ products[i].value.cls = "Grocery"
                           /\ Before(products[i].value.expiry_date, reads[i])}
             IN /\ products' = Pick(products, DOMAIN products \ due)
                /\ result'.ret = [j \in 1..Cardinality(due) |->
                                     Pick(products, due)[j].key]]_vars

\* a sweep that removed both Groceries, the later id first as the store held
\* it first, and kept a product of another class
C10_Witness ==
    /\ result.op = "sweep" /\ result.ret = <<"G2", "G1">>
    /\ products # <<>>

\* C11: after a sell of q, 0 < q <= quantity_in_stock, a restock of the same
\* q succeeds and returns quantity_in_stock to its value before the sell;
\* the product's get_total_value() and the Inventory's
\* total_inventory_value() are then what they were before the sell.
C11_SellThenRestockRestores ==
    [][(/\ result'.op = "sell"
        /\ result'.args[1] \in Keys(products)
        /\ 0 < result'.args[2]
        /\ result'.args[2] <= Stock(products, result'.args[1]))
          => LET id == result'.args[1]
                 r  == restock_product(products', id, result'.args[2])
             IN /\ result'.err = NoError
                /\ r.err = NoError
                /\ Stock(r.products, id) = Stock(products, id)
                /\ get_total_value(Lookup(r.products, id))
                     = get_total_value(Lookup(products, id))
                /\ total_inventory_value(r.products)
                     = total_inventory_value(products)
                /\ r.products = products]_vars

\* a sell of 1 out of a stock of 2, in a store that holds another product as
\* well: the state the restock of 1 then starts from
C11_Witness ==
    /\ result.op = "sell" /\ result.err = NoError
    /\ result.args = <<"E1", 1>>
    /\ Stock(products, "E1") = 1
    /\ Len(products) > 1
    /\ Stock(restock_product(products, "E1", 1).products, "E1") = 2

\* C12: remove_product, get_product, sell_product and restock_product called
\* with an id the store does not hold (never added, or removed by
\* remove_product or by a sweep) fail with ProductNotFoundError carrying the
\* id and leave the store as it was; for sell_product and restock_product
\* this holds for a quantity <= 0 as well, where no ValueError is raised.
C12_AbsentIdRaisesProductNotFound ==
    [][(/\ result'.op \in {"remove", "get", "sell", "restock"}
        /\ result'.args[1] \notin Keys(products))
          => /\ result'.err = "ProductNotFoundError"
             /\ result'.exc = <<result'.args[1]>>
             /\ products' = products]_vars

\* a sell of quantity 0 for a Grocery's id refused with ProductNotFoundError
\* by a store that holds other products
C12_Witness ==
    /\ result.op = "sell" /\ result.err = "ProductNotFoundError"
    /\ result.args = <<"G1", 0>>
    /\ result.exc = <<"G1">>
    /\ Len(products) = 2

\* x + y as a number, not rounded to a float
ExactSum(x, y) ==
    LET e == IF x.e < y.e THEN x.e ELSE y.e
        a == ShiftLeft(x.m, x.e - e)
        b == ShiftLeft(y.m, y.e - e)
    IN IF x.neg = y.neg THEN Canonical(x.neg, Plus(a, b), e)
       ELSE IF Less(a, b) THEN Canonical(y.neg, Minus(b, a), e)
       ELSE Canonical(x.neg, Minus(a, b), e)

\* price * quantity_in_stock of the items of s, added up in their order
SumOfValues(s) ==
    LET upto[i \in 0..Len(s)] ==
            IF i = 0 THEN Zero
            ELSE FloatAdd(upto[i - 1],
                          FloatMul(s[i].value.price,
                                   FloatOfInt(s[i].value.quantity_in_stock)))
    IN upto[Len(s)]

\* C13: total_inventory_value() returns the sum of price * quantity_in_stock
\* over the products held, 0 for an empty store; so the value before a
\* successful sell is the value after it plus exactly the sale total
\* returned, and the value before a remove is the value after it plus
\* exactly the removed product's get_total_value().
C13_TotalValueIsSumOfValues ==
    [][/\ result'.op = "total"
            => /\ result'.ret = SumOfValues(products')
               /\ products' = <<>> => result'.ret = Zero
       /\ (result'.op = "sell" /\ result'.err = NoError)
            => total_inventory_value(products)
                 = ExactSum(total_inventory_value(products'), result'.ret)
       /\ (result'.op = "remove" /\ result'.err = NoError)
            => total_inventory_value(products)
                 = ExactSum(total_inventory_value(products'),
                            get_total_value(Lookup(products,
                                                   result'.args[1])))]_vars

\* C14: a sell_product or restock_product for the id X, refused or not,
\* leaves the ids of the store as they were and every other product as it
\* was, and changes of the product under X nothing but quantity_in_stock;
\* search_by_name, search_by_type, list_all_products, get_product,
\* total_inventory_value and save_to_file leave the store as it was.
C14_StockCallsChangeOnlyStock ==
    [][/\ result'.op \in {"sell", "restock"}
            => /\ Len(products') = Len(products)
               /\ Keys(products') = Keys(products)
               /\ \A id \in Keys(products) :
                      LET old == Lookup(products, id)
                          new == Lookup(products', id)
                      IN IF id = result'.args[1]
                         THEN new = [old EXCEPT !.quantity_in_stock =
                                                    new.quantity_in_stock]
                         ELSE new = old
       /\ result'.op \in {"search_by_name", "search_by_type", "list", "get",
                          "total", "save"}
            => products' = products]_vars

\* a sell that took the last item of one product, in a store that holds a
\* second product and has been saved
C14_Witness ==
    /\ result.op = "sell" /\ result.err = NoError
    /\ Stock(products, result.args[1]) = 0
    /\ Len(products) > 1
    /\ file.kind = "json"

====
